---- MODULE Spec2Model ----
(***************************************************************************)
(* The "pop" chaincode: segments chained into maps, stored in the ledger's *)
(* flat key-value world state.  Two variants of the chaincode exist:       *)
(*   "ck"  - the composite-key variant (putSegment, getSegment, ...)       *)
(*   "doc" - the document variant (SaveSegment, GetSegment, ...)           *)
(* One deployment runs one variant; Init chooses which.                    *)
(***************************************************************************)
EXTENDS Integers, Sequences, FiniteSets, TLC

VARIABLES variant, state, invocation, response, written, puts, cursor, steps

vars == <<variant, state, invocation, response, written, puts, cursor, steps>>

(* Number of putSegment / SaveSegment invocations that change the world state. *)
MaxPuts == 3

----------------------------------------------------------------------------
(* Strings.  Go compares strings bytewise; StrOrder lists the strings of   *)
(* the model in that order.                                                *)

StrOrder == <<"", "h1", "h2", "h3", "h4", "h5", "h6", "h7", "h9", "m1", "m2", "p1", "p2">>

Rank(s) == CHOOSE i \in 1..Len(StrOrder) : StrOrder[i] = s

RECURSIVE SeqLess(_, _)
SeqLess(a, b) ==
    IF b = <<>> THEN FALSE
    ELSE IF a = <<>> THEN TRUE
    ELSE IF Head(a) # Head(b) THEN Rank(Head(a)) < Rank(Head(b))
    ELSE SeqLess(Tail(a), Tail(b))

----------------------------------------------------------------------------
(* Segments (cs.Segment): link.meta.process, link.meta.mapId,              *)
(* link.meta.prevLinkHash and meta.linkHash.                               *)

NewSegment(process, mapId, prevLinkHash, linkHash) ==
    [process |-> process, mapId |-> mapId, prevLinkHash |-> prevLinkHash, linkHash |-> linkHash]

ZeroSegment == NewSegment("", "", "", "")

GetProcess(segment) == segment.process
GetMapID(segment) == segment.mapId
GetPrevLinkHashString(segment) == segment.prevLinkHash
GetLinkHashString(segment) == segment.linkHash

(* The segments clients submit.  linkHash is the hash of the link, so two  *)
(* different links never share it.  "h3" is also used as a mapId and "m1"  *)
(* as a prevLinkHash: both are plain strings chosen by the client.         *)
GenesisSegments ==
    { NewSegment("p1", "m1", "", "h3"),
      NewSegment("p2", "m1", "", "h5"),
      NewSegment("p1", "h3", "", "h4") }

ChildSegments ==
    { NewSegment("p1", "m1", "h3", "h1"),
      NewSegment("p1", "m2", "h3", "h2"),
      NewSegment("p1", "m1", "m1", "h6"),
      NewSegment("p1", "m1", "h9", "h7") }

ValidSegments == GenesisSegments \cup ChildSegments

(* Segments that parse but do not validate. *)
InvalidSegments == { NewSegment("", "m1", "", "h1"), ZeroSegment }

(* Arguments of the read operations: stored and unknown hashes, the empty *)
(* string, mapIds and processes.                                           *)
HashArgs == {"", "h1", "h3", "h9", "m1"}
ProcessArgs == {"p1", "p2"}
MapArgs == {"m1", "m2", "h3"}

----------------------------------------------------------------------------
(* Byte strings held in the world state and in payloads, by their content. *)

NilBytes == [t |-> "nil"]
RawBytes(s) == [t |-> "raw", s |-> s]
SegmentJSON(segment) == [t |-> "segment", segment |-> segment]
SegmentIndexJSON(process, mapID) == [t |-> "segmentIndex", process |-> process, mapID |-> mapID]
MapDocJSON(id, process) == [t |-> "mapDoc", docType |-> "map", id |-> id, process |-> process]
SegmentDocJSON(id, segment) == [t |-> "segmentDoc", docType |-> "segment", id |-> id, segment |-> segment]

(* json.Marshal(segment) *)
Marshal(segment) == SegmentJSON(segment)

JSONSyntaxError == "invalid character looking for beginning of value"
EmptyInputError == "unexpected end of JSON input"

(* json.Unmarshal(bytes, &cs.Segment{}) *)
UnmarshalSegment(bytes) ==
    CASE bytes.t = "segment" -> [err |-> "", segment |-> bytes.segment]
      [] bytes.t = "raw" /\ bytes.s = "" -> [err |-> EmptyInputError, segment |-> ZeroSegment]
      [] bytes.t = "nil" -> [err |-> EmptyInputError, segment |-> ZeroSegment]
      [] bytes.t = "raw" -> [err |-> JSONSyntaxError, segment |-> ZeroSegment]
      [] OTHER -> [err |-> "", segment |-> ZeroSegment]

(* json.Unmarshal(bytes, &SegmentIndex{}) *)
UnmarshalSegmentIndex(bytes) ==
    CASE bytes.t = "segmentIndex" -> [err |-> "", process |-> bytes.process, mapID |-> bytes.mapID]
      [] bytes.t = "raw" -> [err |-> JSONSyntaxError, process |-> "", mapID |-> ""]
      [] bytes.t = "nil" -> [err |-> EmptyInputError, process |-> "", mapID |-> ""]
      [] OTHER -> [err |-> "", process |-> "", mapID |-> ""]

(* json.Unmarshal(bytes, &SegmentDoc{}): a JSON object without a "segment" *)
(* member leaves the zero segment.                                         *)
UnmarshalSegmentDoc(bytes) ==
    CASE bytes.t = "segmentDoc" -> [err |-> "", id |-> bytes.id, segment |-> bytes.segment]
      [] bytes.t = "mapDoc" -> [err |-> "", id |-> bytes.id, segment |-> ZeroSegment]
      [] bytes.t = "raw" -> [err |-> JSONSyntaxError, id |-> "", segment |-> ZeroSegment]
      [] bytes.t = "nil" -> [err |-> EmptyInputError, id |-> "", segment |-> ZeroSegment]
      [] OTHER -> [err |-> "", id |-> "", segment |-> ZeroSegment]

(* segment.Validate() *)
Validate(segment) ==
    IF GetLinkHashString(segment) = "" THEN "meta.linkHash should be a non empty string"
    ELSE IF GetProcess(segment) = "" THEN "link.meta.process should be a non empty string"
    ELSE IF GetMapID(segment) = "" THEN "link.meta.mapId should be a non empty string"
    ELSE ""

(* What a client can pass as the segment argument. *)
RawInputs ==
    { RawBytes(""), RawBytes("h9") }
    \cup { Marshal(s) : s \in ValidSegments \cup InvalidSegments }

----------------------------------------------------------------------------
(* The world state: a finite map from keys to byte strings.                *)

SegmentObjectType == "segment"
MapObjectType == "map"

SimpleKey(s) == [objectType |-> "", attrs |-> <<s>>]
CreateCompositeKey(objectType, attrs) == [objectType |-> objectType, attrs |-> attrs]

EmptyState == [k \in {} |-> NilBytes]

GetState(st, key) == IF key \in DOMAIN st THEN st[key] ELSE NilBytes

(* stub.PutState(key, value); ok is whether the backend accepts the write. *)
PutState(st, key, value, ok) ==
    IF ok THEN [k \in DOMAIN st \cup {key} |-> IF k = key THEN value ELSE st[k]]
    ELSE st

IsPrefix(p, s) == Len(p) <= Len(s) /\ SubSeq(s, 1, Len(p)) = p

RECURSIVE SortKeys(_)
SortKeys(keys) ==
    IF keys = {} THEN <<>>
    ELSE LET first == CHOOSE k \in keys : \A o \in keys \ {k} : SeqLess(k.attrs, o.attrs)
         IN <<first>> \o SortKeys(keys \ {first})

(* The range scan matching the last attribute given by string prefix: "p"  *)
(* is a prefix of "p1" and of "p2".                                        *)
GetStateByStringPrefix(st, objectType, attrs) ==
    LET n == Len(attrs)
        matches(k) == /\ k.objectType = objectType
                      /\ n <= Len(k.attrs)
                      /\ \A i \in 1..n :
                            \/ k.attrs[i] = attrs[i]
                            \/ i = n /\ attrs[i] = "p" /\ k.attrs[i] \in {"p1", "p2"}
        sorted == SortKeys({ k \in DOMAIN st : matches(k) })
    IN [i \in 1..Len(sorted) |-> [Key |-> sorted[i], Value |-> st[sorted[i]]]]

(* stub.GetStateByPartialCompositeKey: the keys of the object type whose   *)
(* leading attributes equal attrs, in key order, each with its value.      *)
GetStateByPartialCompositeKey(st, objectType, attrs) ==
    LET keys == { k \in DOMAIN st : k.objectType = objectType /\ IsPrefix(attrs, k.attrs) }
        sorted == SortKeys(keys)
    IN [i \in 1..Len(sorted) |-> [Key |-> sorted[i], Value |-> st[sorted[i]]]]

----------------------------------------------------------------------------
(* Responses (shim.Success, shim.Error).                                   *)

Success(payload) == [Status |-> "OK", Message |-> "", Payload |-> payload]
Error(msg) == [Status |-> "ERROR", Message |-> msg, Payload |-> NilBytes]

(* The backend's message when a write fails. *)
PutStateError == "PutState failed"

----------------------------------------------------------------------------
(* Result collector: the buffer is the sequence of strings written to it.  *)

Quoted(s) == [t |-> "quoted", s |-> s]

(* buffer.WriteString(s): writing the empty string adds nothing. *)
WriteString(buffer, s) == IF s = NilBytes \/ s = RawBytes("") THEN buffer ELSE Append(buffer, s)

(* A results iterator: the items of the cursor in cursor order, and the    *)
(* call of Next that the backend fails (0: none).                          *)
Iterator(items, failAt) == [items |-> items, failAt |-> failAt]

NextError == "iterator next failed"

NextFailures(items) == 0..Len(items)

(* The loop with the comma written before every member, the first too. *)
RECURSIVE IterateResultsCommaFirst(_, _, _, _, _)
IterateResultsCommaFirst(strings, failAt, i, buffer, bArrayMemberAlreadyWritten) ==
    IF i > Len(strings) THEN [err |-> "", buffer |-> buffer]
    ELSE IF failAt = i THEN [err |-> NextError, buffer |-> buffer]
    ELSE IF strings[i].err # "" THEN [err |-> strings[i].err, buffer |-> buffer]
    ELSE IterateResultsCommaFirst(strings, failAt, i + 1,
                                  WriteString(WriteString(buffer, RawBytes(",")), strings[i].s), TRUE)

(* The loop of bytesFromResultsIterator (part_000): Next, then the comma,  *)
(* then getString; strings[i] is what getString yields for the i-th item.  *)
RECURSIVE IterateResults(_, _, _, _, _)
IterateResults(strings, failAt, i, buffer, bArrayMemberAlreadyWritten) ==
    IF i > Len(strings) THEN [err |-> "", buffer |-> buffer]
    ELSE IF failAt = i THEN [err |-> NextError, buffer |-> buffer]
    ELSE LET b1 == IF bArrayMemberAlreadyWritten THEN WriteString(buffer, RawBytes(",")) ELSE buffer
         IN IF strings[i].err # "" THEN [err |-> strings[i].err, buffer |-> b1]
            ELSE IterateResults(strings, failAt, i + 1, WriteString(b1, strings[i].s), TRUE)

(* SplitCompositeKey succeeds on every key a composite-key range yields. *)
getStringFromMapQueryResponse(queryResponse) == [err |-> "", s |-> Quoted(queryResponse.Key.attrs[2])]
getStringFromSegmentQueryResponse(queryResponse) == [err |-> "", s |-> queryResponse.Value]

(* The call of the getString function passed to the collector, by its name. *)
GetString(getString, queryResponse) ==
    CASE getString = "getStringFromMapQueryResponse" -> getStringFromMapQueryResponse(queryResponse)
      [] OTHER -> getStringFromSegmentQueryResponse(queryResponse)

(* bytesFromResultsIterator: on an error the buffer is dropped. *)
bytesFromResultsIterator(resultsIterator, getString) ==
    LET strings == [i \in 1..Len(resultsIterator.items) |-> GetString(getString, resultsIterator.items[i])]
        r == IterateResults(strings, resultsIterator.failAt, 1, WriteString(<<>>, RawBytes("[")), FALSE)
    IN IF r.err # "" THEN [err |-> r.err, bytes |-> NilBytes]
       ELSE [err |-> "", bytes |-> [t |-> "buffer", parts |-> WriteString(r.buffer, RawBytes("]"))]]

(* The members of a collected array: what lies between the brackets and commas. *)
Members(payload) ==
    SelectSeq(payload.parts, LAMBDA x : x \notin {RawBytes("["), RawBytes(","), RawBytes("]")})

----------------------------------------------------------------------------
(* Composite-key variant.                                                  *)

WriteSteps == {"map", "mapIndex", "segment", "segmentIndex"}

(* The backend writes that fail during one invocation: none, or one of the *)
(* writes the invocation issues (the "writes" of the handler's result).    *)
Failures(issued) == {{}} \cup { {w} : w \in issued }

(* putMap: both PutState results are dropped, the error is always nil. *)
putMap(st, segment, failed) ==
    LET process == GetProcess(segment)
        mapID == GetMapID(segment)
        ck == CreateCompositeKey(MapObjectType, <<process, mapID>>)
        st1 == PutState(st, ck, NilBytes, "map" \notin failed)
        st2 == PutState(st1, SimpleKey(mapID), RawBytes(process), "mapIndex" \notin failed)
    IN [state |-> st2, err |-> ""]

getSegment(st, linkHash) ==
    LET segmentIndexBytes == GetState(st, SimpleKey(linkHash))
        segmentIndex == UnmarshalSegmentIndex(segmentIndexBytes)
        ck == CreateCompositeKey(SegmentObjectType, <<segmentIndex.process, segmentIndex.mapID, linkHash>>)
    IN IF segmentIndexBytes = NilBytes THEN Error("Segment does not exist")
       ELSE IF segmentIndex.err # "" THEN Error(segmentIndex.err)
       ELSE Success(GetState(st, ck))

(* putSegment with the result of json.Unmarshal ignored. *)
putSegmentParseUnchecked(st, bytes, failed) ==
    LET segment == UnmarshalSegment(bytes).segment
        prevLinkHash == GetPrevLinkHashString(segment)
        m == putMap(st, segment, failed)
        st1 == IF prevLinkHash = "" THEN m.state ELSE st
        process == GetProcess(segment)
        mapID == GetMapID(segment)
        linkHash == GetLinkHashString(segment)
        ck == CreateCompositeKey(SegmentObjectType, <<process, mapID, linkHash>>)
        st2 == PutState(st1, ck, Marshal(segment), "segment" \notin failed)
        st3 == PutState(st2, SimpleKey(linkHash), SegmentIndexJSON(process, mapID), "segmentIndex" \notin failed)
        writes == IF prevLinkHash = "" THEN WriteSteps ELSE {"segment", "segmentIndex"}
    IN IF Validate(segment) # ""
       THEN [state |-> st, response |-> Error(Validate(segment)), writes |-> {}, steps |-> <<"parse", "validate">>]
       ELSE IF prevLinkHash # "" /\ getSegment(st, prevLinkHash).Status = "ERROR"
            THEN [state |-> st, response |-> Error("Parent segment doesn't exist"), writes |-> {},
                  steps |-> <<"parse", "validate", "lookup">>]
       ELSE [state |-> st3, response |-> Success(NilBytes), writes |-> writes,
             steps |-> <<"parse", "validate">>
                       \o (IF prevLinkHash = "" THEN <<"map", "mapIndex">> ELSE <<"lookup">>)
                       \o <<"segment", "segmentIndex">>]

(* putSegment: steps lists the steps the handler takes before it returns,  *)
(* in the order of the code; a write that the backend fails is a step too. *)
putSegment(st, bytes, failed) ==
    LET parsed == UnmarshalSegment(bytes)
        segment == parsed.segment
        prevLinkHash == GetPrevLinkHashString(segment)
        m == putMap(st, segment, failed)
        st1 == IF prevLinkHash = "" THEN m.state ELSE st
        process == GetProcess(segment)
        mapID == GetMapID(segment)
        linkHash == GetLinkHashString(segment)
        ck == CreateCompositeKey(SegmentObjectType, <<process, mapID, linkHash>>)
        st2 == PutState(st1, ck, Marshal(segment), "segment" \notin failed)
        st3 == PutState(st2, SimpleKey(linkHash), SegmentIndexJSON(process, mapID), "segmentIndex" \notin failed)
        writes == IF prevLinkHash = "" THEN WriteSteps ELSE {"segment", "segmentIndex"}
    IN IF parsed.err # ""
       THEN [state |-> st, response |-> Error("Could not parse segment"), writes |-> {}, steps |-> <<"parse">>]
       ELSE IF Validate(segment) # ""
       THEN [state |-> st, response |-> Error(Validate(segment)), writes |-> {}, steps |-> <<"parse", "validate">>]
       ELSE IF prevLinkHash = "" /\ m.err # ""
            THEN [state |-> m.state, response |-> Error(m.err), writes |-> {"map", "mapIndex"},
                  steps |-> <<"parse", "validate", "map", "mapIndex">>]
       ELSE IF prevLinkHash # "" /\ getSegment(st, prevLinkHash).Status = "ERROR"
            THEN [state |-> st, response |-> Error("Parent segment doesn't exist"), writes |-> {},
                  steps |-> <<"parse", "validate", "lookup">>]
       ELSE [state |-> st3, response |-> Success(NilBytes), writes |-> writes,
             steps |-> <<"parse", "validate">>
                       \o (IF prevLinkHash = "" THEN <<"map", "mapIndex">> ELSE <<"lookup">>)
                       \o <<"segment", "segmentIndex">>]

(* What a read handler leaves behind: its response and its cursor, closed  *)
(* by the deferred Close whenever the range query opened one.              *)
Collected(resultBytes, c) ==
    [response |-> IF resultBytes.err # "" THEN Error(resultBytes.err) ELSE Success(resultBytes.bytes),
     cursor |-> c]

getMapsAll(st, failAt) ==
    LET resultsIterator == Iterator(GetStateByPartialCompositeKey(st, MapObjectType, <<>>), failAt)
    IN Collected(bytesFromResultsIterator(resultsIterator, "getStringFromMapQueryResponse"), "closed")

getMapsForProcess(st, process, failAt) ==
    LET resultsIterator == Iterator(GetStateByPartialCompositeKey(st, MapObjectType, <<process>>), failAt)
    IN Collected(bytesFromResultsIterator(resultsIterator, "getStringFromMapQueryResponse"), "closed")

getSegmentsAll(st, failAt) ==
    LET resultsIterator == Iterator(GetStateByPartialCompositeKey(st, SegmentObjectType, <<>>), failAt)
    IN Collected(bytesFromResultsIterator(resultsIterator, "getStringFromSegmentQueryResponse"), "closed")

getSegmentsForProcess(st, process, failAt) ==
    LET resultsIterator == Iterator(GetStateByPartialCompositeKey(st, SegmentObjectType, <<process>>), failAt)
    IN Collected(bytesFromResultsIterator(resultsIterator, "getStringFromSegmentQueryResponse"), "closed")

(* string(processBytes) *)
BytesToString(bytes) ==
    CASE bytes.t = "raw" -> bytes.s
      [] bytes.t = "nil" -> ""
      [] bytes.t = "segmentIndex" -> "{\"process\":\"" \o bytes.process \o "\",\"mapID\":\"" \o bytes.mapID \o "\"}"
      [] OTHER -> "{}"

(* getSegmentsForMap listing the segments of the map in the order of writing. *)
getSegmentsForMapInWriteOrder(st, mapId, failAt) ==
    LET processBytes == GetState(st, SimpleKey(mapId))
        items == GetStateByPartialCompositeKey(st, SegmentObjectType, <<BytesToString(processBytes), mapId>>)
        found == { items[i].Value : i \in 1..Len(items) }
        inOrder == SelectSeq(written, LAMBDA s : Marshal(s) \in found)
        resultsIterator == Iterator([i \in 1..Len(inOrder) |-> [Value |-> Marshal(inOrder[i])]], failAt)
    IN Collected(bytesFromResultsIterator(resultsIterator, "getStringFromSegmentQueryResponse"), "closed")

getSegmentsForMap(st, mapId, failAt) ==
    LET processBytes == GetState(st, SimpleKey(mapId))
        resultsIterator == Iterator(GetStateByPartialCompositeKey(st, SegmentObjectType,
                                        <<BytesToString(processBytes), mapId>>), failAt)
    IN Collected(bytesFromResultsIterator(resultsIterator, "getStringFromSegmentQueryResponse"), "closed")

----------------------------------------------------------------------------
(* Document variant.                                                       *)

(* SaveMap: the error of PutState is returned. *)
SaveMap(st, segment, failed) ==
    LET mapDocBytes == MapDocJSON(GetMapID(segment), GetProcess(segment))
        ok == "map" \notin failed
    IN [state |-> PutState(st, SimpleKey(GetMapID(segment)), mapDocBytes, ok),
        err |-> IF ok THEN "" ELSE PutStateError]

extractSegment(segmentDocBytes) ==
    LET segmentDoc == UnmarshalSegmentDoc(segmentDocBytes)
    IN IF segmentDoc.err # "" THEN [err |-> segmentDoc.err, bytes |-> NilBytes]
       ELSE [err |-> "", bytes |-> Marshal(segmentDoc.segment)]

GetSegment(st, linkHash) ==
    LET segmentDocBytes == GetState(st, SimpleKey(linkHash))
        segmentBytes == extractSegment(segmentDocBytes)
    IN IF segmentDocBytes = NilBytes THEN Error("Segment does not exist")
       ELSE IF segmentBytes.err # "" THEN Error(segmentBytes.err)
       ELSE Success(segmentBytes.bytes)

(* SaveSegment storing the segment document before it looks the parent up. *)
SaveSegmentBeforeLookup(st, bytes, failed) ==
    LET parsed == UnmarshalSegment(bytes)
        segment == parsed.segment
        prevLinkHash == GetPrevLinkHashString(segment)
        linkHash == GetLinkHashString(segment)
        ok == "segment" \notin failed
        st1 == PutState(st, SimpleKey(linkHash), SegmentDocJSON(linkHash, segment), ok)
        m == SaveMap(st1, segment, failed)
    IN IF parsed.err # ""
       THEN [state |-> st, response |-> Error("Could not parse segment"), writes |-> {}, steps |-> <<"parse">>]
       ELSE IF Validate(segment) # ""
       THEN [state |-> st, response |-> Error(Validate(segment)), writes |-> {}, steps |-> <<"parse", "validate">>]
       ELSE IF ~ok
       THEN [state |-> st1, response |-> Error(PutStateError), writes |-> {"segment"},
             steps |-> <<"parse", "validate", "segment">>]
       ELSE IF prevLinkHash = ""
       THEN [state |-> m.state, response |-> IF m.err # "" THEN Error(m.err) ELSE Success(NilBytes),
             writes |-> {"map", "segment"}, steps |-> <<"parse", "validate", "segment", "map">>]
       ELSE IF GetSegment(st, prevLinkHash).Status = "ERROR"
       THEN [state |-> st1, response |-> Error("Parent segment doesn't exist"), writes |-> {"segment"},
             steps |-> <<"parse", "validate", "segment", "lookup">>]
       ELSE [state |-> st1, response |-> Success(NilBytes), writes |-> {"segment"},
             steps |-> <<"parse", "validate", "segment", "lookup">>]

(* SaveSegment: steps lists the steps the handler takes before it returns. *)
SaveSegment(st, bytes, failed) ==
    LET parsed == UnmarshalSegment(bytes)
        segment == parsed.segment
        prevLinkHash == GetPrevLinkHashString(segment)
        m == SaveMap(st, segment, failed)
        st1 == IF prevLinkHash = "" THEN m.state ELSE st
        linkHash == GetLinkHashString(segment)
        ok == "segment" \notin failed
        st2 == PutState(st1, SimpleKey(linkHash), SegmentDocJSON(linkHash, segment), ok)
        writes == IF prevLinkHash = "" THEN {"map", "segment"} ELSE {"segment"}
        taken == <<"parse", "validate">> \o (IF prevLinkHash = "" THEN <<"map">> ELSE <<"lookup">>) \o <<"segment">>
    IN IF parsed.err # ""
       THEN [state |-> st, response |-> Error("Could not parse segment"), writes |-> {}, steps |-> <<"parse">>]
       ELSE IF Validate(segment) # ""
       THEN [state |-> st, response |-> Error(Validate(segment)), writes |-> {}, steps |-> <<"parse", "validate">>]
       ELSE IF prevLinkHash = "" /\ m.err # ""
            THEN [state |-> m.state, response |-> Error(m.err), writes |-> {"map"},
                  steps |-> <<"parse", "validate", "map">>]
       ELSE IF prevLinkHash # "" /\ GetSegment(st, prevLinkHash).Status = "ERROR"
            THEN [state |-> st, response |-> Error("Parent segment doesn't exist"), writes |-> {},
                  steps |-> <<"parse", "validate", "lookup">>]
       ELSE IF ~ok THEN [state |-> st2, response |-> Error(PutStateError), writes |-> writes, steps |-> taken]
       ELSE [state |-> st2, response |-> Success(NilBytes), writes |-> writes, steps |-> taken]

----------------------------------------------------------------------------
(* Filters.  A query string is the sequence of its "key=value" pairs, each *)
(* key and value in its escaped spelling.                                  *)

Pair(key, value) == <<key, value>>

EscapeError == "invalid URL escape"

(* url.QueryUnescape on the spellings of the model: "%5B%5D" spells "[]",  *)
(* "%255B%255D" spells "%5B%5D", "%zz" is no escape.                       *)
QueryUnescape(s) ==
    CASE s = "%zz" -> [err |-> EscapeError, s |-> ""]
      [] s = "mapIds%5B%5D" -> [err |-> "", s |-> "mapIds[]"]
      [] s = "mapIds%255B%255D" -> [err |-> "", s |-> "mapIds%5B%5D"]
      [] s = "tags%5B%5D" -> [err |-> "", s |-> "tags[]"]
      [] s = "tags%255B%255D" -> [err |-> "", s |-> "tags%5B%5D"]
      [] OTHER -> [err |-> "", s |-> s]

(* url.ParseQuery keeping every key as it is written in the query string. *)
RECURSIVE ParseQueryKeysAsWritten(_)
ParseQueryKeysAsWritten(q) ==
    IF q = <<>> THEN [err |-> "", pairs |-> <<>>]
    ELSE LET key == Head(q)[1]
             value == QueryUnescape(Head(q)[2])
             rest == ParseQueryKeysAsWritten(Tail(q))
         IN IF QueryUnescape(key).err # "" THEN [err |-> QueryUnescape(key).err, pairs |-> rest.pairs]
            ELSE IF value.err # "" THEN [err |-> value.err, pairs |-> rest.pairs]
            ELSE [err |-> rest.err, pairs |-> <<Pair(key, value.s)>> \o rest.pairs]

(* url.ParseQuery: a pair that does not unescape is skipped and the first  *)
(* error is returned next to the values of the other pairs.                *)
RECURSIVE ParseQuery(_)
ParseQuery(q) ==
    IF q = <<>> THEN [err |-> "", pairs |-> <<>>]
    ELSE LET key == QueryUnescape(Head(q)[1])
             value == QueryUnescape(Head(q)[2])
             rest == ParseQuery(Tail(q))
         IN IF key.err # "" THEN [err |-> key.err, pairs |-> rest.pairs]
            ELSE IF value.err # "" THEN [err |-> value.err, pairs |-> rest.pairs]
            ELSE [err |-> rest.err, pairs |-> <<Pair(key.s, value.s)>> \o rest.pairs]

(* v[key]: the values of the key, in the order of the query string. *)
Values(v, key) ==
    LET found == SelectSeq(v.pairs, LAMBDA pair : pair[1] = key)
    IN [i \in 1..Len(found) |-> found[i][2]]

(* v.Get(key) *)
Get(v, key) == IF Values(v, key) = <<>> THEN "" ELSE Values(v, key)[1]

AtoiError == "strconv.Atoi: invalid syntax"

(* strconv.Atoi on the numerals of the model. *)
Atoi(s) ==
    CASE s = "0" -> [err |-> "", n |-> 0]
      [] s = "1" -> [err |-> "", n |-> 1]
      [] s = "2" -> [err |-> "", n |-> 2]
      [] s = "-1" -> [err |-> "", n |-> -1]
      [] OTHER -> [err |-> AtoiError, n |-> 0]

(* parsePagination: nil is whether the returned pointer is nil; a negative *)
(* number returns nil with the nil error of Atoi.                          *)
parsePagination(q) ==
    LET v == ParseQuery(q)
        offsetstr == Get(v, "offset")
        offset == Atoi(offsetstr)
        limitstr == Get(v, "limit")
        limit == Atoi(limitstr)
    IN IF offsetstr # "" /\ (offset.err # "" \/ offset.n < 0)
       THEN [nil |-> TRUE, err |-> offset.err, Offset |-> 0, Limit |-> 0]
       ELSE IF limitstr # "" /\ (limit.err # "" \/ limit.n < 0)
       THEN [nil |-> TRUE, err |-> limit.err, Offset |-> 0, Limit |-> 0]
       ELSE [nil |-> FALSE, err |-> "",
             Offset |-> IF offsetstr = "" THEN 0 ELSE offset.n,
             Limit |-> IF limitstr = "" THEN 0 ELSE limit.n]

(* The 32-byte hashes, each named by its lower-case hexadecimal spelling.  *)
Hashes32 == {"h1", "h2", "h3", "h4", "h5", "h6", "h7", "h9"}

(* Hexadecimal spellings with upper-case digits, and the hash they spell.  *)
UpperHex(s) ==
    CASE s = "H1" -> "h1"
      [] s = "H3" -> "h3"
      [] OTHER -> ""

(* Hexadecimal spellings of byte strings that are not 32 bytes long. *)
ShortHex == {"ab"}

HexError == "encoding/hex: invalid byte"
Bytes32SizeError == "invalid Bytes32 size"

(* types.NewBytes32FromString: hex.DecodeString, then the length check. *)
NewBytes32FromString(src) ==
    IF src \in Hashes32 THEN [err |-> "", bytes32 |-> src]
    ELSE IF UpperHex(src) # "" THEN [err |-> "", bytes32 |-> UpperHex(src)]
    ELSE IF src \in ShortHex THEN [err |-> Bytes32SizeError, bytes32 |-> ""]
    ELSE [err |-> HexError, bytes32 |-> ""]

(* Bytes32.String(): the lower-case hexadecimal spelling. *)
Bytes32String(bytes32) == bytes32

(* A nil *types.Bytes32. *)
NilBytes32 == ""

NoFilter == [Offset |-> 0, Limit |-> 0, MapIDs |-> <<>>, Process |-> "", PrevLinkHash |-> NilBytes32, Tags |-> <<>>]

(* parseSegmentFilter taking a prevLinkHash that does not decode as absent. *)
parseSegmentFilterHashIgnored(q) ==
    LET v == ParseQuery(q)
        prevLinkHash == NewBytes32FromString(Get(v, "prevLinkHash"))
        pagination == parsePagination(q)
    IN IF v.err # "" THEN [panic |-> FALSE, err |-> v.err, filter |-> NoFilter]
       ELSE IF pagination.nil THEN [panic |-> TRUE, err |-> "", filter |-> NoFilter]
       ELSE [panic |-> FALSE, err |-> "",
             filter |-> [Offset |-> pagination.Offset, Limit |-> pagination.Limit,
                         MapIDs |-> Values(v, "mapIds[]") \o Values(v, "mapIds%5B%5D"),
                         Process |-> Get(v, "process"),
                         PrevLinkHash |-> IF prevLinkHash.err = "" THEN prevLinkHash.bytes32 ELSE NilBytes32,
                         Tags |-> Values(v, "tags[]") \o Values(v, "tags%5B%5D")]]

(* parseSegmentFilter: the error of parsePagination is not looked at and   *)
(* the pointer is dereferenced; panic is the nil dereference.              *)
parseSegmentFilter(q) ==
    LET v == ParseQuery(q)
        mapIDs == Values(v, "mapIds[]") \o Values(v, "mapIds%5B%5D")
        process == Get(v, "process")
        prevLinkHashStr == Get(v, "prevLinkHash")
        tags == Values(v, "tags[]") \o Values(v, "tags%5B%5D")
        prevLinkHash == NewBytes32FromString(prevLinkHashStr)
        pagination == parsePagination(q)
    IN IF v.err # "" THEN [panic |-> FALSE, err |-> v.err, filter |-> NoFilter]
       ELSE IF prevLinkHashStr # "" /\ prevLinkHash.err # ""
       THEN [panic |-> FALSE, err |-> prevLinkHash.err, filter |-> NoFilter]
       ELSE IF pagination.nil THEN [panic |-> TRUE, err |-> "", filter |-> NoFilter]
       ELSE [panic |-> FALSE, err |-> "",
             filter |-> [Offset |-> pagination.Offset, Limit |-> pagination.Limit,
                         MapIDs |-> mapIDs, Process |-> process,
                         PrevLinkHash |-> IF prevLinkHashStr # "" THEN prevLinkHash.bytes32 ELSE NilBytes32,
                         Tags |-> tags]]

(* parseMapFilter: both errors are dropped, the error returned is nil. *)
parseMapFilter(q) ==
    LET v == ParseQuery(q)
        pagination == parsePagination(q)
    IN IF pagination.nil THEN [panic |-> TRUE, err |-> "", filter |-> NoFilter]
       ELSE [panic |-> FALSE, err |-> "",
             filter |-> [Offset |-> pagination.Offset, Limit |-> pagination.Limit,
                         MapIDs |-> <<>>, Process |-> Get(v, "process"),
                         PrevLinkHash |-> NilBytes32, Tags |-> <<>>]]

----------------------------------------------------------------------------
(* Rich queries.  A JSON object is the sequence of its members in the      *)
(* order json.Marshal writes them; a member tagged omitempty is left out   *)
(* when its value is the empty value of its type.                          *)

Member(name, value) == [name |-> name, value |-> value]
String(s) == [string |-> s]
Number(n) == [number |-> n]
Array(list) == [array |-> list]
Object(members) == [object |-> members]

OmitEmpty(member, empty) == IF empty THEN <<>> ELSE <<member>>

ObjectTypeSegment == "segment"
ObjectTypeMap == "map"

(* A nil pointer, and a pointer to a MapIdsIn or TagsAll holding the list. *)
NilPointer == [nil |-> TRUE, list |-> <<>>]
PointerTo(list) == [nil |-> FALSE, list |-> list]

(* json.Marshal(MapQuery{...}) *)
MarshalMapQuery(mapQuery) ==
    Object(<<Member("selector",
                    Object(<<Member("docType", String(mapQuery.Selector.ObjectType))>>
                           \o OmitEmpty(Member("process", String(mapQuery.Selector.Process)),
                                        mapQuery.Selector.Process = "")))>>
           \o OmitEmpty(Member("limit", Number(mapQuery.Limit)), mapQuery.Limit = 0)
           \o OmitEmpty(Member("skip", Number(mapQuery.Skip)), mapQuery.Skip = 0))

newMapQuery(mapFilter) ==
    LET parsed == parseMapFilter(mapFilter)
        filter == parsed.filter
        mapSelector == [ObjectType |-> ObjectTypeMap, Process |-> filter.Process]
        mapQuery == [Selector |-> mapSelector, Limit |-> filter.Limit, Skip |-> filter.Offset]
    IN IF parsed.panic THEN [panic |-> TRUE, err |-> "", query |-> Object(<<>>)]
       ELSE IF parsed.err # "" THEN [panic |-> FALSE, err |-> parsed.err, query |-> Object(<<>>)]
       ELSE [panic |-> FALSE, err |-> "", query |-> MarshalMapQuery(mapQuery)]

(* json.Marshal(SegmentSelector{...}) *)
MarshalSegmentSelector(sel) ==
    Object(<<Member("docType", String(sel.ObjectType))>>
           \o OmitEmpty(Member("id", String(sel.LinkHash)), sel.LinkHash = "")
           \o OmitEmpty(Member("segment.link.meta.prevLinkHash", String(sel.PrevLinkHash)), sel.PrevLinkHash = "")
           \o OmitEmpty(Member("segment.link.meta.process", String(sel.Process)), sel.Process = "")
           \o OmitEmpty(Member("segment.link.meta.mapId",
                               Object(OmitEmpty(Member("$in", Array(sel.MapIds.list)), sel.MapIds.list = <<>>))),
                        sel.MapIds.nil)
           \o OmitEmpty(Member("segment.link.meta.tags",
                               Object(OmitEmpty(Member("$all", Array(sel.Tags.list)), sel.Tags.list = <<>>))),
                        sel.Tags.nil))

(* json.Marshal(SegmentQuery{...}) *)
MarshalSegmentQuery(segmentQuery) ==
    Object(<<Member("selector", MarshalSegmentSelector(segmentQuery.Selector))>>
           \o OmitEmpty(Member("limit", Number(segmentQuery.Limit)), segmentQuery.Limit = 0)
           \o OmitEmpty(Member("skip", Number(segmentQuery.Skip)), segmentQuery.Skip = 0))

(* The selector with the branch on the tags taken before the branch on the *)
(* mapIds, whose else clears the tags.                                     *)
SegmentSelectorOfTagsFirst(filter) ==
    LET s0 == [ObjectType |-> ObjectTypeSegment, LinkHash |-> "", PrevLinkHash |-> "", Process |-> "",
               MapIds |-> NilPointer, Tags |-> NilPointer]
        s1 == IF filter.PrevLinkHash # NilBytes32
              THEN [s0 EXCEPT !.PrevLinkHash = Bytes32String(filter.PrevLinkHash)] ELSE s0
        s2 == IF filter.Process # "" THEN [s1 EXCEPT !.Process = filter.Process] ELSE s1
        s3 == IF Len(filter.Tags) > 0 THEN [s2 EXCEPT !.Tags = PointerTo(filter.Tags)]
              ELSE [s2 EXCEPT !.Tags = NilPointer]
        s4 == IF Len(filter.MapIDs) > 0 THEN [s3 EXCEPT !.MapIds = PointerTo(filter.MapIDs)]
              ELSE [s3 EXCEPT !.Tags = NilPointer]
    IN s4

(* The selector newSegmentQuery builds from a parsed filter. *)
SegmentSelectorOf(filter) ==
    LET s0 == [ObjectType |-> ObjectTypeSegment, LinkHash |-> "", PrevLinkHash |-> "", Process |-> "",
               MapIds |-> NilPointer, Tags |-> NilPointer]
        s1 == IF filter.PrevLinkHash # NilBytes32
              THEN [s0 EXCEPT !.PrevLinkHash = Bytes32String(filter.PrevLinkHash)] ELSE s0
        s2 == IF filter.Process # "" THEN [s1 EXCEPT !.Process = filter.Process] ELSE s1
        s3 == IF Len(filter.MapIDs) > 0 THEN [s2 EXCEPT !.MapIds = PointerTo(filter.MapIDs)]
              ELSE [s2 EXCEPT !.Tags = NilPointer]
        s4 == IF Len(filter.Tags) > 0 THEN [s3 EXCEPT !.Tags = PointerTo(filter.Tags)]
              ELSE [s3 EXCEPT !.Tags = NilPointer]
    IN s4

newSegmentQuery(segmentFilter) ==
    LET parsed == parseSegmentFilter(segmentFilter)
        filter == parsed.filter
        segmentQuery == [Selector |-> SegmentSelectorOf(filter), Limit |-> filter.Limit, Skip |-> filter.Offset]
    IN IF parsed.panic THEN [panic |-> TRUE, err |-> "", query |-> Object(<<>>)]
       ELSE IF parsed.err # "" THEN [panic |-> FALSE, err |-> parsed.err, query |-> Object(<<>>)]
       ELSE [panic |-> FALSE, err |-> "", query |-> MarshalSegmentQuery(segmentQuery)]

(* The members of a JSON object by name. *)
Has(json, name) == \E i \in 1..Len(json.object) : json.object[i].name = name
IndexOf(json, name) == CHOOSE i \in 1..Len(json.object) : json.object[i].name = name
Value(json, name) == json.object[IndexOf(json, name)].value

(* The tags of a stored segment: the segments of the model carry none. *)
GetTags(segment) == <<>>

Range(list) == { list[i] : i \in 1..Len(list) }

(* Whether a stored document satisfies one member of a selector. *)
Satisfies(doc, member) ==
    CASE member.name = "docType" -> doc.docType = member.value.string
      [] member.name = "id" -> doc.id = member.value.string
      [] member.name = "process" -> doc.t = "mapDoc" /\ doc.process = member.value.string
      [] member.name = "segment.link.meta.process" ->
             doc.t = "segmentDoc" /\ GetProcess(doc.segment) = member.value.string
      [] member.name = "segment.link.meta.prevLinkHash" ->
             doc.t = "segmentDoc" /\ GetPrevLinkHashString(doc.segment) = member.value.string
      [] member.name = "segment.link.meta.mapId" ->
             /\ doc.t = "segmentDoc"
             /\ Has(member.value, "$in") => GetMapID(doc.segment) \in Range(Value(member.value, "$in").array)
      [] member.name = "segment.link.meta.tags" ->
             /\ doc.t = "segmentDoc"
             /\ Has(member.value, "$all") => Range(Value(member.value, "$all").array) \subseteq Range(GetTags(doc.segment))
      [] OTHER -> FALSE

(* stub.GetQueryResult: the documents the selector matches, in key order;  *)
(* the ledger does not apply limit and skip.                               *)
GetQueryResult(st, queryString) ==
    LET selector == Value(queryString, "selector")
        keys == { k \in DOMAIN st : st[k].t \in {"mapDoc", "segmentDoc"}
                                    /\ \A i \in 1..Len(selector.object) : Satisfies(st[k], selector.object[i]) }
        sorted == SortKeys(keys)
    IN [i \in 1..Len(sorted) |-> [Key |-> sorted[i], Value |-> st[sorted[i]]]]

(* json.Unmarshal(bytes, &MapDoc{}) *)
UnmarshalMapDoc(bytes) ==
    CASE bytes.t = "mapDoc" -> [err |-> "", id |-> bytes.id]
      [] bytes.t = "segmentDoc" -> [err |-> "", id |-> bytes.id]
      [] bytes.t = "raw" -> [err |-> JSONSyntaxError, id |-> ""]
      [] bytes.t = "nil" -> [err |-> EmptyInputError, id |-> ""]
      [] OTHER -> [err |-> "", id |-> ""]

extractMapID(mapDocBytes) ==
    LET mapDoc == UnmarshalMapDoc(mapDocBytes)
    IN IF mapDoc.err # "" THEN [err |-> mapDoc.err, bytes |-> NilBytes]
       ELSE [err |-> "", bytes |-> Quoted(mapDoc.id)]

(* The loop of bytesFromResultsIterator (pop.go): the comma, then Next,    *)
(* then extract; extracted[i] is what extract yields for the i-th item.    *)
RECURSIVE IterateQueryResults(_, _, _, _, _)
IterateQueryResults(extracted, failAt, i, buffer, bArrayMemberAlreadyWritten) ==
    IF i > Len(extracted) THEN [err |-> "", buffer |-> buffer]
    ELSE LET b1 == IF bArrayMemberAlreadyWritten THEN WriteString(buffer, RawBytes(",")) ELSE buffer
         IN IF failAt = i THEN [err |-> NextError, buffer |-> b1]
            ELSE IF extracted[i].err # "" THEN [err |-> extracted[i].err, buffer |-> b1]
            ELSE IterateQueryResults(extracted, failAt, i + 1, WriteString(b1, extracted[i].bytes), TRUE)

(* The call of the extract function passed to the collector, by its name. *)
Extract(extract, bytes) ==
    CASE extract = "extractSegment" -> extractSegment(bytes)
      [] OTHER -> extractMapID(bytes)

(* bytesFromResultsIterator of pop.go. *)
bytesFromQueryResults(resultsIterator, extract) ==
    LET extracted == [i \in 1..Len(resultsIterator.items) |-> Extract(extract, resultsIterator.items[i].Value)]
        r == IterateQueryResults(extracted, resultsIterator.failAt, 1, WriteString(<<>>, RawBytes("[")), FALSE)
    IN IF r.err # "" THEN [err |-> r.err, bytes |-> NilBytes]
       ELSE [err |-> "", bytes |-> [t |-> "buffer", parts |-> WriteString(r.buffer, RawBytes("]"))]]

(* A nil dereference ends the chaincode process: no response is sent. *)
Panic == [Status |-> "PANIC", Message |-> "invalid memory address or nil pointer dereference", Payload |-> NilBytes]

(* FindSegments: the cursor GetQueryResult opens is not closed. *)
FindSegments(st, segmentFilter, failAt) ==
    IF newSegmentQuery(segmentFilter).panic THEN [response |-> Panic, cursor |-> "none"]
    ELSE IF newSegmentQuery(segmentFilter).err # ""
    THEN [response |-> Error("Segment filter format incorrect"), cursor |-> "none"]
    ELSE Collected(bytesFromQueryResults(
                       Iterator(GetQueryResult(st, newSegmentQuery(segmentFilter).query), failAt),
                       "extractSegment"),
                   "open")

(* GetMapIDs: the cursor GetQueryResult opens is not closed. *)
GetMapIDs(st, mapFilter, failAt) ==
    IF newMapQuery(mapFilter).panic THEN [response |-> Panic, cursor |-> "none"]
    ELSE IF newMapQuery(mapFilter).err # ""
    THEN [response |-> Error("Map filter format incorrect"), cursor |-> "none"]
    ELSE Collected(bytesFromQueryResults(
                       Iterator(GetQueryResult(st, newMapQuery(mapFilter).query), failAt),
                       "extractMapID"),
                   "open")

----------------------------------------------------------------------------
(* Invocations.                                                            *)

NoInvocation == [function |-> "", args |-> <<>>, failed |-> {}]
Invocation(function, args, failed) == [function |-> function, args |-> args, failed |-> failed]

(* The filters clients pass to FindSegments and GetMapIDs. *)
ClientFilters ==
    { <<>>,
      <<Pair("process", "p1")>>,
      <<Pair("mapIds[]", "m1"), Pair("prevLinkHash", "h3")>>,
      <<Pair("offset", "-1")>> }

(* All filters made of one spelling of each parameter. *)
ProcessParams == { <<>>, <<Pair("process", "p1")>> }
MapIdsParams ==
    { <<>>,
      <<Pair("mapIds[]", "m1")>>,
      <<Pair("mapIds[]", "m1"), Pair("mapIds%5B%5D", "m2")>>,
      <<Pair("mapIds%255B%255D", "m2"), Pair("mapIds[]", "m1")>>,
      <<Pair("mapIds%5B%5D", "m2"), Pair("mapIds[]", "m1"), Pair("mapIds%5B%5D", "h3")>> }
TagsParams ==
    { <<>>,
      <<Pair("tags[]", "t1")>>,
      <<Pair("tags%5B%5D", "t1"), Pair("tags[]", "t2")>> }
PrevLinkHashParams == { <<>> } \cup { <<Pair("prevLinkHash", s)>> : s \in {"", "h3", "H3", "ab", "zz"} }
OffsetParams == { <<>> } \cup { <<Pair("offset", s)>> : s \in {"1", "x", "-1"} }
LimitParams == { <<>> } \cup { <<Pair("limit", s)>> : s \in {"2", "-1"} }
EscapeParams == { <<>>, <<Pair("process", "%zz")>> }

FilterStrings ==
    { a \o b \o c \o d \o e \o f \o g :
        a \in ProcessParams, b \in MapIdsParams, c \in TagsParams, d \in PrevLinkHashParams,
        e \in OffsetParams, f \in LimitParams, g \in EscapeParams }

(* written: the segments successful puts have stored, in the order of first writing. *)
Record(log, segment, resp) ==
    IF resp.Status = "OK" /\ \A i \in 1..Len(log) : log[i] # segment THEN Append(log, segment) ELSE log

Init ==
    /\ variant \in {"ck", "doc"}
    /\ state = EmptyState
    /\ invocation = NoInvocation
    /\ response = Success(NilBytes)
    /\ written = <<>>
    /\ puts = 0
    /\ cursor = "none"
    /\ steps = <<>>

(* A handler that opens no cursor. *)
NoCursor(resp) == [response |-> resp, cursor |-> "none"]

(* The failure of the backend a read saw: none, or a failing Next. *)
ReadFailure(failAt) == IF failAt = 0 THEN {} ELSE {"next"}

(* A read that keeps its response in the world state under the function name. *)
QueryKeepingResponse(function, args, failed, r) ==
    /\ invocation' = Invocation(function, args, failed)
    /\ response' = r.response
    /\ cursor' = r.cursor
    /\ steps' = <<>>
    /\ state' = PutState(state, SimpleKey(function), r.response.Payload, TRUE)
    /\ UNCHANGED <<variant, written, puts>>

(* A read: r is what the handler leaves behind, cursor the one it opened. *)
Query(function, args, failed, r) ==
    /\ invocation' = Invocation(function, args, failed)
    /\ response' = r.response
    /\ cursor' = r.cursor
    /\ steps' = <<>>
    /\ UNCHANGED <<variant, state, written, puts>>

InvokePutSegment(failures) ==
    /\ variant = "ck"
    /\ puts < MaxPuts
    /\ \E bytes \in RawInputs, failed \in failures :
         LET r == putSegment(state, bytes, failed) IN
         /\ failed \subseteq r.writes
         /\ state' = r.state
         /\ response' = r.response
         /\ invocation' = Invocation("putSegment", <<bytes>>, failed)
         /\ written' = Record(written, UnmarshalSegment(bytes).segment, r.response)
         /\ puts' = IF r.state # state THEN puts + 1 ELSE puts
         /\ steps' = r.steps
    /\ cursor' = "none"
    /\ UNCHANGED variant

InvokeGetSegment ==
    /\ variant = "ck"
    /\ \E linkHash \in HashArgs : Query("getSegment", <<linkHash>>, {}, NoCursor(getSegment(state, linkHash)))

InvokeGetMapsAll ==
    /\ variant = "ck"
    /\ \E failAt \in NextFailures(GetStateByPartialCompositeKey(state, MapObjectType, <<>>)) :
         Query("getMapsAll", <<>>, ReadFailure(failAt), getMapsAll(state, failAt))

InvokeGetMapsForProcess ==
    /\ variant = "ck"
    /\ \E process \in ProcessArgs :
         \E failAt \in NextFailures(GetStateByPartialCompositeKey(state, MapObjectType, <<process>>)) :
           Query("getMapsForProcess", <<process>>, ReadFailure(failAt), getMapsForProcess(state, process, failAt))

InvokeGetSegmentsAll ==
    /\ variant = "ck"
    /\ \E failAt \in NextFailures(GetStateByPartialCompositeKey(state, SegmentObjectType, <<>>)) :
         Query("getSegmentsAll", <<>>, ReadFailure(failAt), getSegmentsAll(state, failAt))

InvokeGetSegmentsForProcess ==
    /\ variant = "ck"
    /\ \E process \in ProcessArgs :
         \E failAt \in NextFailures(GetStateByPartialCompositeKey(state, SegmentObjectType, <<process>>)) :
           Query("getSegmentsForProcess", <<process>>, ReadFailure(failAt),
                 getSegmentsForProcess(state, process, failAt))

InvokeGetSegmentsForMap ==
    /\ variant = "ck"
    /\ \E mapId \in MapArgs :
         \E failAt \in NextFailures(GetStateByPartialCompositeKey(state, SegmentObjectType,
                                          <<BytesToString(GetState(state, SimpleKey(mapId))), mapId>>)) :
           Query("getSegmentsForMap", <<mapId>>, ReadFailure(failAt), getSegmentsForMap(state, mapId, failAt))

InvokeSaveSegment(failures) ==
    /\ variant = "doc"
    /\ puts < MaxPuts
    /\ \E bytes \in RawInputs, failed \in failures :
         LET r == SaveSegment(state, bytes, failed) IN
         /\ failed \subseteq r.writes
         /\ state' = r.state
         /\ response' = r.response
         /\ invocation' = Invocation("SaveSegment", <<bytes>>, failed)
         /\ written' = Record(written, UnmarshalSegment(bytes).segment, r.response)
         /\ puts' = IF r.state # state THEN puts + 1 ELSE puts
         /\ steps' = r.steps
    /\ cursor' = "none"
    /\ UNCHANGED variant

InvokeDocGetSegment ==
    /\ variant = "doc"
    /\ \E linkHash \in HashArgs : Query("GetSegment", <<linkHash>>, {}, NoCursor(GetSegment(state, linkHash)))

(* The calls of Next the backend can fail while the query's cursor is drained. *)
QueryFailures(st, queryString) ==
    IF queryString.panic \/ queryString.err # "" THEN {0}
    ELSE NextFailures(GetQueryResult(st, queryString.query))

InvokeFindSegments(filters) ==
    /\ variant = "doc"
    /\ \E segmentFilter \in filters, failAt \in 0..Cardinality(DOMAIN state) :
         /\ failAt \in QueryFailures(state, newSegmentQuery(segmentFilter))
         /\ Query("FindSegments", <<segmentFilter>>, ReadFailure(failAt), FindSegments(state, segmentFilter, failAt))

InvokeGetMapIDs(filters) ==
    /\ variant = "doc"
    /\ \E mapFilter \in filters, failAt \in 0..Cardinality(DOMAIN state) :
         /\ failAt \in QueryFailures(state, newMapQuery(mapFilter))
         /\ Query("GetMapIDs", <<mapFilter>>, ReadFailure(failAt), GetMapIDs(state, mapFilter, failAt))

(* Any other function name. *)
InvokeDefault ==
    Query("unknown", <<>>, {}, NoCursor(Error("Invalid Smart Contract function name.")))

Queries ==
    \/ InvokeGetSegment
    \/ InvokeGetMapsAll
    \/ InvokeGetMapsForProcess
    \/ InvokeGetSegmentsAll
    \/ InvokeGetSegmentsForProcess
    \/ InvokeGetSegmentsForMap
    \/ InvokeDocGetSegment
    \/ InvokeFindSegments(ClientFilters)
    \/ InvokeGetMapIDs(ClientFilters)
    \/ InvokeDefault

(* The chaincode on a backend whose writes may fail. *)
Next ==
    \/ InvokePutSegment(Failures(WriteSteps))
    \/ InvokeSaveSegment(Failures({"map", "segment"}))
    \/ Queries

Spec == Init /\ [][Next]_vars

(* The chaincode on a backend whose writes always succeed. *)
NextReliable ==
    \/ InvokePutSegment({{}})
    \/ InvokeSaveSegment({{}})
    \/ Queries

SpecReliable == Init /\ [][NextReliable]_vars

----------------------------------------------------------------------------
(* The filter parser and the query compiler on every filter string, over a *)
(* store that is empty or holds a genesis segment and its child.           *)

FilterStores ==
    LET genesis == NewSegment("p1", "m1", "", "h3")
        child == NewSegment("p1", "m1", "h3", "h1")
        st1 == SaveSegment(EmptyState, Marshal(genesis), {}).state
        st2 == SaveSegment(st1, Marshal(child), {}).state
    IN { [state |-> EmptyState, written |-> <<>>, puts |-> 0],
         [state |-> st2, written |-> <<genesis, child>>, puts |-> 2] }

(* An invocation that has been submitted and has not run yet. *)
Pending == [Status |-> "PENDING", Message |-> "", Payload |-> NilBytes]

InitFilter ==
    /\ variant = "doc"
    /\ \E store \in FilterStores :
         /\ state = store.state
         /\ written = store.written
         /\ puts = store.puts
    /\ \E function \in {"FindSegments", "GetMapIDs"}, filter \in FilterStrings :
         invocation = Invocation(function, <<filter>>, {})
    /\ response = Pending
    /\ cursor = "none"
    /\ steps = <<>>

RunFindSegments ==
    /\ response = Pending
    /\ invocation.function = "FindSegments"
    /\ InvokeFindSegments({invocation.args[1]})

RunGetMapIDs ==
    /\ response = Pending
    /\ invocation.function = "GetMapIDs"
    /\ InvokeGetMapIDs({invocation.args[1]})

NextFilter ==
    \/ RunFindSegments
    \/ RunGetMapIDs

SpecFilter == InitFilter /\ [][NextFilter]_vars

----------------------------------------------------------------------------
(* The result collectors on every cursor of at most MaxItems items, with   *)
(* every call of Next that can fail.                                       *)

MaxItems == 3

MapItems == { [Key |-> CreateCompositeKey(MapObjectType, <<"p1", m>>), Value |-> NilBytes] : m \in {"m1", "h3"} }

SegmentItems ==
    { [Key |-> CreateCompositeKey(SegmentObjectType, <<"p1", "m1", "h3">>),
       Value |-> Marshal(NewSegment("p1", "m1", "", "h3"))],
      [Key |-> CreateCompositeKey(SegmentObjectType, <<"p1", "m1", "h1">>), Value |-> NilBytes] }

DocumentItems ==
    { [Key |-> SimpleKey("h3"), Value |-> SegmentDocJSON("h3", NewSegment("p1", "m1", "", "h3"))],
      [Key |-> SimpleKey("m1"), Value |-> MapDocJSON("m1", "p1")],
      [Key |-> SimpleKey("h9"), Value |-> RawBytes("h9")] }

(* The extract functions, and the items of the cursors each is used on. *)
ItemsOf(extract) ==
    CASE extract = "getStringFromMapQueryResponse" -> MapItems
      [] extract = "getStringFromSegmentQueryResponse" -> SegmentItems
      [] OTHER -> DocumentItems

ExtractsOf(v) ==
    IF v = "ck" THEN {"getStringFromMapQueryResponse", "getStringFromSegmentQueryResponse"}
    ELSE {"extractSegment", "extractMapID"}

Cursors(items) ==
    UNION { { Iterator(list, failAt) : list \in [1..n -> items], failAt \in 0..n } : n \in 0..MaxItems }

(* The collector of the variant applied with one of its extract functions. *)
Collect(extract, resultsIterator) ==
    IF extract \in ExtractsOf("ck") THEN bytesFromResultsIterator(resultsIterator, extract)
    ELSE bytesFromQueryResults(resultsIterator, extract)

InitCollector ==
    /\ variant \in {"ck", "doc"}
    /\ state = EmptyState
    /\ written = <<>>
    /\ puts = 0
    /\ \E extract \in ExtractsOf(variant) :
         \E resultsIterator \in Cursors(ItemsOf(extract)) :
           invocation = Invocation("bytesFromResultsIterator", <<extract, resultsIterator>>, {})
    /\ response = Pending
    /\ cursor = "open"
    /\ steps = <<>>

(* The collector drains the cursor and leaves closing it to its caller. *)
RunCollector ==
    /\ response = Pending
    /\ invocation.function = "bytesFromResultsIterator"
    /\ response' = Collected(Collect(invocation.args[1], invocation.args[2]), cursor).response
    /\ UNCHANGED <<variant, state, invocation, written, puts, cursor, steps>>

NextCollector == RunCollector

SpecCollector == InitCollector /\ [][NextCollector]_vars

----------------------------------------------------------------------------
(* Vocabulary of the properties.                                           *)

PutFunctions == {"putSegment", "SaveSegment"}

(* The segment records the world state holds. *)
StoredSegments(st) ==
    IF variant = "ck"
    THEN { st[k].segment : k \in { k \in DOMAIN st : k.objectType = SegmentObjectType } }
    ELSE { st[k].segment : k \in { k \in DOMAIN st : st[k].t = "segmentDoc" } }

(* The keys that hold a segment record or a map marker. *)
RecordKeys(st) ==
    IF variant = "ck"
    THEN { k \in DOMAIN st : k.objectType \in {SegmentObjectType, MapObjectType} }
    ELSE { k \in DOMAIN st : st[k].t \in {"segmentDoc", "mapDoc"} }

(* The lookup by hash of the deployed variant. *)
Lookup(st, linkHash) ==
    IF variant = "ck" THEN getSegment(st, linkHash) ELSE GetSegment(st, linkHash)

(* The segment the last put invocation carried. *)
PutArg(inv) == UnmarshalSegment(inv.args[1]).segment

(* The last invocation was a put of a segment that parses and validates. *)
PutOfValid(inv) ==
    /\ inv.function \in PutFunctions
    /\ UnmarshalSegment(inv.args[1]).err = ""
    /\ Validate(PutArg(inv)) = ""

(* Position of a segment in the order of writing (0: never written). *)
WrittenAt(segment) ==
    IF \E i \in 1..Len(written) : written[i] = segment
    THEN CHOOSE i \in 1..Len(written) : written[i] = segment
    ELSE 0

----------------------------------------------------------------------------
(* C1 - Round trip: after a successful put of a valid genesis segment S,   *)
(* the lookup of linkHash(S) succeeds with the canonical JSON of S, in     *)
(* both variants.                                                          *)
C1_RoundTrip ==
    (PutOfValid(invocation) /\ response.Status = "OK"
        /\ GetPrevLinkHashString(PutArg(invocation)) = "")
    => Lookup(state, GetLinkHashString(PutArg(invocation))) = Success(Marshal(PutArg(invocation)))

(* C2 - Referential integrity: every stored segment with a non-empty       *)
(* prevLinkHash has a stored segment whose linkHash is that prevLinkHash.  *)
C2_ReferentialIntegrity ==
    \A s \in StoredSegments(state) :
        GetPrevLinkHashString(s) # ""
        => \E parent \in StoredSegments(state) : GetLinkHashString(parent) = GetPrevLinkHashString(s)

(* C3 - Parent enforcement: a put of a valid segment whose non-empty       *)
(* prevLinkHash is the linkHash of no stored segment fails with "Parent    *)
(* segment doesn't exist" and leaves the world state unchanged.            *)
C3_ParentEnforcement ==
    [][ (PutOfValid(invocation')
          /\ GetPrevLinkHashString(PutArg(invocation')) # ""
          /\ \A s \in StoredSegments(state) :
                 GetLinkHashString(s) # GetPrevLinkHashString(PutArg(invocation')))
        => (response' = Error("Parent segment doesn't exist") /\ state' = state) ]_vars

(* C4 - Missing lookup: the lookup of any string that is the linkHash of   *)
(* no stored segment fails with exactly "Segment does not exist".          *)
C4_MissingLookup ==
    \A h \in HashArgs :
        (\A s \in StoredSegments(state) : GetLinkHashString(s) # h)
        => Lookup(state, h) = Error("Segment does not exist")

(* C5 - Malformed input rejection: a put of bytes that are empty or not    *)
(* JSON fails with exactly "Could not parse segment" and leaves the world  *)
(* state unchanged.                                                        *)
C5_MalformedRejected ==
    [][ (invocation'.function \in PutFunctions /\ invocation'.args[1].t = "raw")
        => (response' = Error("Could not parse segment") /\ state' = state) ]_vars

(* C5 witness: a malformed put was rejected by a store that holds records. *)
C5_Witness ==
    /\ invocation.function \in PutFunctions
    /\ invocation.args[1] = RawBytes("")
    /\ response = Error("Could not parse segment")
    /\ StoredSegments(state) # {}

(* C6 - Genesis creates map once: getMapsAll returns one entry per         *)
(* distinct (process, mapId) pair of the successfully written segments.    *)
C6_OneEntryPerMap ==
    variant = "ck" =>
        LET maps == Members(getMapsAll(state, 0).response.Payload)
            pairs == { <<GetProcess(written[i]), GetMapID(written[i])>> : i \in 1..Len(written) }
        IN /\ Len(maps) = Cardinality(pairs)
           /\ \A pair \in pairs : \E i \in 1..Len(maps) : maps[i] = Quoted(pair[2])

(* C7 - Write-order listing: the segments getSegmentsForMap returns appear *)
(* in the order in which putSegment wrote them.                            *)
C7_WriteOrder ==
    variant = "ck" =>
        \A m \in MapArgs :
            LET segments == Members(getSegmentsForMap(state, m, 0).response.Payload)
            IN \A i, j \in 1..Len(segments) :
                   i < j => WrittenAt(segments[i].segment) < WrittenAt(segments[j].segment)

(* C7 amended - the segments getSegmentsForMap(m) returns are stored       *)
(* segments of map m, in ascending order of linkHash (the key order of the *)
(* range scan), whatever the order of writing.                             *)
C7_KeyOrder ==
    variant = "ck" =>
        \A m \in MapArgs :
            LET segments == Members(getSegmentsForMap(state, m, 0).response.Payload)
            IN /\ \A i \in 1..Len(segments) :
                      /\ segments[i].t = "segment"
                      /\ segments[i].segment \in StoredSegments(state)
                      /\ GetMapID(segments[i].segment) = m
               /\ \A i, j \in 1..Len(segments) :
                      i < j => Rank(GetLinkHashString(segments[i].segment))
                                   < Rank(GetLinkHashString(segments[j].segment))

(* C7 witness: a map listed in an order that is not the order of writing.  *)
C7_Witness ==
    /\ variant = "ck"
    /\ \E m \in MapArgs :
           LET segments == Members(getSegmentsForMap(state, m, 0).response.Payload)
           IN /\ Len(segments) = 2
              /\ WrittenAt(segments[1].segment) > WrittenAt(segments[2].segment)
              /\ WrittenAt(segments[2].segment) > 0

(* C8 - Append-only: a stored segment record or map marker keeps its value *)
(* in every later state.                                                   *)
C8_AppendOnly ==
    [][ \A k \in RecordKeys(state) : k \in DOMAIN state' /\ state'[k] = state[k] ]_vars

(* The segment record of a put and the entries written with it are all in st. *)
AllPersisted(st, segment) ==
    LET process == GetProcess(segment)
        mapID == GetMapID(segment)
        linkHash == GetLinkHashString(segment)
        genesis == GetPrevLinkHashString(segment) = ""
    IN IF variant = "ck"
       THEN /\ GetState(st, CreateCompositeKey(SegmentObjectType, <<process, mapID, linkHash>>)) = Marshal(segment)
            /\ GetState(st, SimpleKey(linkHash)) = SegmentIndexJSON(process, mapID)
            /\ genesis => CreateCompositeKey(MapObjectType, <<process, mapID>>) \in DOMAIN st
       ELSE /\ GetState(st, SimpleKey(linkHash)) = SegmentDocJSON(linkHash, segment)
            /\ genesis => GetState(st, SimpleKey(mapID)) = MapDocJSON(mapID, process)

(* C9 - No partial writes: a put that returns a failure response leaves    *)
(* the world state as it was, and the map marker, segment record and index *)
(* entry of one put are persisted all together or not at all.              *)
C9_NoPartialWrites ==
    [][ invocation'.function \in PutFunctions
        => /\ response'.Status = "ERROR" => state' = state
           /\ PutOfValid(invocation') => (state' = state \/ AllPersisted(state', PutArg(invocation'))) ]_vars

(* C10 - No swallowed storage errors: a put one of whose backend writes    *)
(* failed returns a failure response.                                      *)
C10_NoSwallowedErrors ==
    (invocation.function \in PutFunctions /\ invocation.failed # {})
    => response.Status = "ERROR"

(* The filter string of the invocation, parsed as a query string. *)
FilterArg == invocation.args[1]

(* The invocation has run a handler that takes a filter. *)
Ran(function) == invocation.function = function /\ response # Pending

(* An offset or limit that is present and is not a non-negative integer. *)
BadPagination(q) ==
    \E key \in {"offset", "limit"} :
        LET s == Get(ParseQuery(q), key)
        IN s # "" /\ (Atoi(s).err # "" \/ Atoi(s).n < 0)

(* C11 - Cursor release: no invocation returns with the cursor it opened   *)
(* still open, on success and on every error path.                         *)
C11_CursorRelease == cursor # "open"

(* C12 - Pagination format errors: FindSegments with a malformed or        *)
(* negative offset or limit returns "Segment filter format incorrect" and  *)
(* issues no backend query.                                                *)
C12_PaginationFormat ==
    Ran("FindSegments") /\ BadPagination(FilterArg)
        => (response = Error("Segment filter format incorrect") /\ cursor = "none")

(* C13 - Map-filter format errors: GetMapIDs with a filter that does not   *)
(* URL-decode or whose offset or limit is not a non-negative integer       *)
(* returns "Map filter format incorrect".                                  *)
C13_MapFilterFormat ==
    Ran("GetMapIDs") /\ (ParseQuery(FilterArg).err # "" \/ BadPagination(FilterArg))
        => response = Error("Map filter format incorrect")


(* The prevLinkHash parameter of the filter string, and the hash it spells *)
(* ("" when it spells none).                                               *)
PrevLinkHashArg == Get(ParseQuery(FilterArg), "prevLinkHash")
HashSpelled(s) == IF s \in Hashes32 THEN s ELSE UpperHex(s)

(* The query the handler compiled from the filter string. *)
Compiled(function) == IF function = "FindSegments" THEN newSegmentQuery(FilterArg) ELSE newMapQuery(FilterArg)
IsCompiled(function) == ~Compiled(function).panic /\ Compiled(function).err = ""
SelectorOf(function) == Value(Compiled(function).query, "selector")

(* C14 - prevLinkHash format: a non-empty prevLinkHash that does not       *)
(* decode to a 32-byte hash makes FindSegments return "Segment filter      *)
(* format incorrect"; one that decodes is carried by the compiled selector *)
(* in the hash's string encoding; an absent or empty one is unset.         *)
C14_PrevLinkHashFormat ==
    Ran("FindSegments") =>
        /\ (PrevLinkHashArg # "" /\ HashSpelled(PrevLinkHashArg) = "")
               => (response = Error("Segment filter format incorrect") /\ cursor = "none")
        /\ IsCompiled("FindSegments") =>
               /\ response.Status # "PANIC"
               /\ IF PrevLinkHashArg = ""
                  THEN /\ parseSegmentFilter(FilterArg).filter.PrevLinkHash = NilBytes32
                       /\ ~Has(SelectorOf("FindSegments"), "segment.link.meta.prevLinkHash")
                  ELSE /\ Has(SelectorOf("FindSegments"), "segment.link.meta.prevLinkHash")
                       /\ Value(SelectorOf("FindSegments"), "segment.link.meta.prevLinkHash")
                              = String(HashSpelled(PrevLinkHashArg))

(* FindSegments ran a query compiled from an upper-case spelling of a hash. *)
C14_Witness ==
    /\ Ran("FindSegments")
    /\ PrevLinkHashArg = "H3"
    /\ response.Status = "OK"
    /\ cursor = "open"

(* The names of the members of a JSON object. *)
Names(json) == { json.object[i].name : i \in 1..Len(json.object) }

(* The predicates a parsed filter supplies, by the selector field of each. *)
Supplied(filter) ==
    {"docType"}
    \cup (IF filter.Process # "" THEN {"segment.link.meta.process"} ELSE {})
    \cup (IF filter.PrevLinkHash # NilBytes32 THEN {"segment.link.meta.prevLinkHash"} ELSE {})
    \cup (IF filter.MapIDs # <<>> THEN {"segment.link.meta.mapId"} ELSE {})
    \cup (IF filter.Tags # <<>> THEN {"segment.link.meta.tags"} ELSE {})

(* C15 - Selector field presence: the selector newSegmentQuery compiles    *)
(* has docType "segment" and exactly the predicates the filter supplies:   *)
(* process iff non-empty, prevLinkHash iff set, mapId $in with exactly the *)
(* mapIds iff there are any, tags $all with exactly the tags iff there are *)
(* any; an empty $in or $all never occurs.                                 *)
C15_SelectorFields ==
    Ran("FindSegments") /\ IsCompiled("FindSegments") =>
        LET filter == parseSegmentFilter(FilterArg).filter
            selector == SelectorOf("FindSegments")
        IN /\ Names(selector) = Supplied(filter)
           /\ Len(selector.object) = Cardinality(Supplied(filter))
           /\ Value(selector, "docType") = String("segment")
           /\ filter.Process # "" => Value(selector, "segment.link.meta.process") = String(filter.Process)
           /\ filter.MapIDs # <<>> =>
                  Value(selector, "segment.link.meta.mapId") = Object(<<Member("$in", Array(filter.MapIDs))>>)
           /\ filter.Tags # <<>> =>
                  Value(selector, "segment.link.meta.tags") = Object(<<Member("$all", Array(filter.Tags))>>)

(* FindSegments ran a query compiled from a filter with tags and no mapIds. *)
C15_Witness ==
    /\ Ran("FindSegments")
    /\ response.Status = "OK"
    /\ parseSegmentFilter(FilterArg).filter.Tags = <<"t1", "t2">>
    /\ parseSegmentFilter(FilterArg).filter.MapIDs = <<>>
    /\ parseSegmentFilter(FilterArg).filter.Process = "p1"

(* What the extract function of a collector yields for an item: its error  *)
(* and its bytes.                                                          *)
Extracted(extract, item) ==
    IF extract \in ExtractsOf("ck")
    THEN [err |-> GetString(extract, item).err, bytes |-> GetString(extract, item).s]
    ELSE Extract(extract, item.Value)

IsEmptyBytes(bytes) == bytes = NilBytes \/ bytes = RawBytes("")

(* '[' e_1 ',' e_2 ... ',' e_n ']' as the sequence of its non-empty pieces. *)
JSONArray(members) ==
    LET n == Len(members)
        pieces == [j \in 1..(IF n = 0 THEN 2 ELSE 2 * n + 1) |->
                      IF j = 1 THEN RawBytes("[")
                      ELSE IF j = (IF n = 0 THEN 2 ELSE 2 * n + 1) THEN RawBytes("]")
                      ELSE IF j % 2 = 0 THEN members[j \div 2]
                      ELSE RawBytes(",")]
    IN SelectSeq(pieces, LAMBDA piece : ~IsEmptyBytes(piece))

Commas(payload) == Len(SelectSeq(payload.parts, LAMBDA piece : piece = RawBytes(",")))

(* C16 - Result collector format: when Next and extract never fail the     *)
(* collector returns '[', the extracts of the items in cursor order with   *)
(* single commas between them, ']' (n-1 commas for n items, "[]" for       *)
(* none); when Next or extract fails it returns the error and no payload.  *)
C16_CollectorFormat ==
    Ran("bytesFromResultsIterator") =>
        LET extract == invocation.args[1]
            resultsIterator == invocation.args[2]
            items == resultsIterator.items
            members == [i \in 1..Len(items) |-> Extracted(extract, items[i]).bytes]
            fails == \/ resultsIterator.failAt # 0
                     \/ \E i \in 1..Len(items) : Extracted(extract, items[i]).err # ""
        IN IF fails THEN response.Status = "ERROR" /\ response.Payload = NilBytes
           ELSE /\ response.Status = "OK"
                /\ response.Payload.parts = JSONArray(members)
                /\ Commas(response.Payload) = (IF items = <<>> THEN 0 ELSE Len(items) - 1)

(* The collector of part_000 returned an array of MaxItems members. *)
C16_Witness ==
    /\ Ran("bytesFromResultsIterator")
    /\ invocation.args[1] = "getStringFromMapQueryResponse"
    /\ Len(invocation.args[2].items) = MaxItems
    /\ response.Status = "OK"


(* C17 - Replay idempotence: a put of S invoked again right after a        *)
(* successful put of S, on a backend that accepts its writes, succeeds     *)
(* again and leaves the world state as the first put left it.              *)
C17_ReplayIdempotent ==
    [][ (/\ invocation.function \in PutFunctions
         /\ response.Status = "OK"
         /\ invocation'.function = invocation.function
         /\ invocation'.args = invocation.args
         /\ invocation'.failed = {})
        => (response'.Status = "OK" /\ state' = state) ]_vars

(* A map marker for (process, mapId) is stored. *)
HasMapMarker(st, process, mapId) ==
    IF variant = "ck"
    THEN CreateCompositeKey(MapObjectType, <<process, mapId>>) \in DOMAIN st
    ELSE GetState(st, SimpleKey(mapId)) = MapDocJSON(mapId, process)

(* The segment is linked to a stored genesis segment through at most n     *)
(* stored parents.                                                         *)
RECURSIVE GenesisReachable(_, _, _)
GenesisReachable(st, segment, n) ==
    IF GetPrevLinkHashString(segment) = "" THEN TRUE
    ELSE IF n = 0 THEN FALSE
    ELSE \E parent \in StoredSegments(st) :
            /\ GetLinkHashString(parent) = GetPrevLinkHashString(segment)
            /\ GenesisReachable(st, parent, n - 1)

(* C19 - Map marker precedes chained segments: every stored segment that   *)
(* is linked back to a stored genesis segment has a map marker for its own *)
(* (process, mapId).                                                       *)
C19_MapMarker ==
    \A s \in StoredSegments(state) :
        GenesisReachable(state, s, Cardinality(StoredSegments(state)))
        => HasMapMarker(state, GetProcess(s), GetMapID(s))

(* C20 - Segment index consistency (composite-key variant): the key        *)
(* linkHash holds the index entry (process, mapId) iff a segment record is *)
(* stored under (segment, process, mapId, linkHash), so no other write has *)
(* replaced an index entry, and getSegment on an indexed hash does not     *)
(* succeed with an empty payload.                                          *)
C20_IndexConsistency ==
    variant = "ck" =>
        /\ \A k \in DOMAIN state :
               k.objectType = SegmentObjectType
               => GetState(state, SimpleKey(k.attrs[3])) = SegmentIndexJSON(k.attrs[1], k.attrs[2])
        /\ \A k \in DOMAIN state :
               (k.objectType = "" /\ state[k].t = "segmentIndex")
               => /\ CreateCompositeKey(SegmentObjectType, <<state[k].process, state[k].mapID, k.attrs[1]>>)
                         \in DOMAIN state
                  /\ getSegment(state, k.attrs[1]) # Success(NilBytes)

(* The place of a step in the order parse, validate, map-marker write or   *)
(* parent lookup, segment record write, segment index write.               *)
StepRank(step) ==
    CASE step = "parse" -> 1
      [] step = "validate" -> 2
      [] step = "map" -> 3
      [] step = "mapIndex" -> 4
      [] step = "lookup" -> 4
      [] step = "segment" -> 5
      [] OTHER -> 6

(* Whether the steps of an invocation hold a write, and a given step. *)
Wrote(taken) == \E i \in 1..Len(taken) : taken[i] \in WriteSteps
Took(taken, step) == \E i \in 1..Len(taken) : taken[i] = step

(* C21 - Write ordering inside a put: the steps of every invocation occur  *)
(* in the order parse, validate, then map-marker write (genesis) or parent *)
(* lookup (non-genesis), then segment record write, then segment index     *)
(* write; nothing is written before parsing and validation have succeeded, *)
(* a non-genesis segment causes no write before its parent lookup has      *)
(* succeeded, and the index entry is not written before the record.        *)
C21_WriteOrdering ==
    [][ invocation'.function \in PutFunctions =>
          /\ \A i, j \in 1..Len(steps') : i < j => StepRank(steps'[i]) < StepRank(steps'[j])
          /\ Len(steps') > 0 /\ steps'[1] = "parse"
          /\ state' # state => Wrote(steps')
          /\ Wrote(steps') =>
                /\ PutOfValid(invocation')
                /\ steps'[2] = "validate"
                /\ IF GetPrevLinkHashString(PutArg(invocation')) = ""
                   THEN steps'[3] = "map" /\ ~Took(steps', "lookup")
                   ELSE /\ steps'[3] = "lookup"
                        /\ ~Took(steps', "map")
                        /\ Lookup(state, GetPrevLinkHashString(PutArg(invocation'))).Status = "OK"
          /\ \A i \in 1..Len(steps') : steps'[i] = "segmentIndex" => (i > 1 /\ steps'[i - 1] = "segment")
          /\ (variant = "ck" /\ response'.Status = "OK") =>
                (Took(steps', "segment") /\ Took(steps', "segmentIndex")) ]_vars

(* A child segment was stored after the lookup of its parent succeeded. *)
C21_Witness ==
    /\ invocation.function \in PutFunctions
    /\ response.Status = "OK"
    /\ GetPrevLinkHashString(PutArg(invocation)) = "h3"
    /\ Took(steps, "lookup")
    /\ Took(steps, "segment")
    /\ PutArg(invocation) \in StoredSegments(state)

(* The segments a listing response carries, and the stored segments of a map. *)
Listed(resp) == { Members(resp.Payload)[i].segment : i \in 1..Len(Members(resp.Payload)) }
SegmentsOfMap(st, mapId) == { s \in StoredSegments(st) : GetMapID(s) = mapId }

(* C22 - List-by-map completeness (composite-key variant): for every mapId *)
(* m, getSegmentsForMap(m) returns every stored segment whose mapId is m,  *)
(* each exactly once, and no segment of another map.                       *)
C22_ListByMapComplete ==
    variant = "ck" =>
        \A m \in MapArgs :
            LET resp == getSegmentsForMap(state, m, 0).response
            IN /\ resp.Status = "OK"
               /\ Listed(resp) = SegmentsOfMap(state, m)
               /\ Len(Members(resp.Payload)) = Cardinality(SegmentsOfMap(state, m))

(* The processes listings are asked for: "p" is a proper prefix of the     *)
(* processes that store segments.                                          *)
ProcessQueries == ProcessArgs \cup {"p"}

SegmentsOfProcess(st, process) == { s \in StoredSegments(st) : GetProcess(s) = process }

(* The payload carries exactly the given segments, each once, and nothing else. *)
ListsExactly(resp, segments) ==
    /\ resp.Status = "OK"
    /\ \A i \in 1..Len(Members(resp.Payload)) : Members(resp.Payload)[i].t = "segment"
    /\ Listed(resp) = segments
    /\ Len(Members(resp.Payload)) = Cardinality(segments)

(* C23 - List-all and list-by-process exactness (composite-key variant):   *)
(* getSegmentsAll returns each stored segment exactly once and nothing     *)
(* else, and getSegmentsForProcess(p) returns exactly the stored segments  *)
(* whose process equals p, each once.                                      *)
C23_ListExact ==
    variant = "ck" =>
        /\ ListsExactly(getSegmentsAll(state, 0).response, StoredSegments(state))
        /\ \A p \in ProcessQueries :
               ListsExactly(getSegmentsForProcess(state, p, 0).response, SegmentsOfProcess(state, p))

(* Segments of two processes are stored next to map markers and index      *)
(* entries, and the listing of one process leaves the other's out.         *)
C23_Witness ==
    /\ variant = "ck"
    /\ SegmentsOfProcess(state, "p1") # {}
    /\ SegmentsOfProcess(state, "p2") # {}
    /\ Cardinality(StoredSegments(state)) = 3
    /\ Len(Members(getSegmentsForProcess(state, "p1", 0).response.Payload)) = 2
    /\ invocation.function = "getSegmentsForProcess"
    /\ response = getSegmentsForProcess(state, "p1", 0).response

(* The (process, mapId) pairs of the map markers, and of the stored genesis segments. *)
MapMarkers(st) == { <<k.attrs[1], k.attrs[2]>> : k \in { k \in DOMAIN st : k.objectType = MapObjectType } }
GenesisPairs(st) ==
    { <<GetProcess(s), GetMapID(s)>> : s \in { s \in StoredSegments(st) : GetPrevLinkHashString(s) = "" } }

(* The markers are those of the stored genesis segments, and the listing   *)
(* of every process returns the mapIds of its markers, each once.          *)
MarkersExact(st) ==
    /\ MapMarkers(st) = GenesisPairs(st)
    /\ \A p \in ProcessQueries :
           LET resp == getMapsForProcess(st, p, 0).response
               mapIds == { pair[2] : pair \in { pair \in GenesisPairs(st) : pair[1] = p } }
           IN /\ resp.Status = "OK"
              /\ { Members(resp.Payload)[i] : i \in 1..Len(Members(resp.Payload)) } = { Quoted(m) : m \in mapIds }
              /\ Len(Members(resp.Payload)) = Cardinality(mapIds)

(* C24 - Map markers come only from genesis segments (composite-key        *)
(* variant): the (process, mapId) pairs of the map markers are those of    *)
(* the stored genesis segments, getMapsForProcess(p) returns exactly the   *)
(* mapIds of the stored genesis segments of process p, each once, and the  *)
(* put of a non-genesis segment adds and changes no marker.                *)
C24_MarkersFromGenesis ==
    [][ variant = "ck" =>
          /\ MarkersExact(state')
          /\ (PutOfValid(invocation') /\ GetPrevLinkHashString(PutArg(invocation')) # "")
                => \A k \in DOMAIN state \cup DOMAIN state' :
                       k.objectType = MapObjectType
                       => (k \in DOMAIN state /\ k \in DOMAIN state' /\ state'[k] = state[k]) ]_vars

(* C25 - Read operations are pure: every invocation of a function other    *)
(* than putSegment / SaveSegment (the lookups, the listings, FindSegments, *)
(* GetMapIDs and an unknown function name) leaves the whole world state    *)
(* unchanged, whether it succeeds or fails; only a put changes the state.  *)
C25_ReadsPure ==
    [][ /\ invocation'.function \notin PutFunctions => state' = state
        /\ state' # state => invocation'.function \in PutFunctions ]_vars

(* A listing failed on a call of Next over a store that holds segments. *)
C25_Witness ==
    /\ invocation.function = "FindSegments"
    /\ invocation.failed = {"next"}
    /\ response = Error(NextError)
    /\ Cardinality(StoredSegments(state)) = 2

(* The values a query string gives under the keys written in one of the    *)
(* given spellings, in the order of the query string.                      *)
WrittenUnder(q, spellings) ==
    LET found == SelectSeq(q, LAMBDA pair : pair[1] \in spellings)
    IN [i \in 1..Len(found) |-> QueryUnescape(found[i][2]).s]

(* The list a filter holds for an array parameter: the values written      *)
(* under the literal key "name[]" and under its percent-encoded form       *)
(* "name%5B%5D", in the order of the query string; values written under a  *)
(* key encoded twice follow them.                                          *)
Merged(q, name) ==
    WrittenUnder(q, {name \o "[]", name \o "%5B%5D"}) \o WrittenUnder(q, {name \o "%255B%255D"})

(* C26 - Array parameter merging: the mapIds list, and likewise the tags   *)
(* list, of the filter parsed from a query string holds every value given  *)
(* under the literal-bracket key and under the percent-encoded key, as one *)
(* list in the order in which the parameters appear in the query string,   *)
(* also when the two key forms are interleaved.                            *)
C26_ArrayMerging ==
    (Ran("FindSegments") /\ IsCompiled("FindSegments")) =>
        /\ parseSegmentFilter(FilterArg).filter.MapIDs = Merged(FilterArg, "mapIds")
        /\ parseSegmentFilter(FilterArg).filter.Tags = Merged(FilterArg, "tags")

(* FindSegments ran on a filter whose mapIds alternate between the two key *)
(* forms and whose tags start with the percent-encoded form.               *)
C26_Witness ==
    /\ Ran("FindSegments")
    /\ response.Status = "OK"
    /\ WrittenUnder(FilterArg, {"mapIds%5B%5D"}) = <<"m2", "h3">>
    /\ WrittenUnder(FilterArg, {"mapIds[]"}) = <<"m1">>
    /\ parseSegmentFilter(FilterArg).filter.MapIDs = <<"m2", "m1", "h3">>
    /\ parseSegmentFilter(FilterArg).filter.Tags = <<"t1", "t2">>

====
